---- MODULE Spec2Model ----
(***************************************************************************)
(* Model of the Chibi Agent tool chain:                                    *)
(*   generate_prompts.py  - rarity schedule + unique trait generator       *)
(*   generate_images.py   - submit/poll/fetch/download job pipeline        *)
(*   update_metadata_cid.py - placeholder patch of the metadata documents  *)
(* Specifications:                                                         *)
(*   Spec        the image run (main + generate_single) with an            *)
(*               adversarial remote service, I/O errors and process kills  *)
(*   SpecGen     the prompt/trait generation run                           *)
(*   SpecExtract the image-reference extraction applied to result payloads *)
(*   SpecAgent   generate_agent applied to every extras-count 0..4         *)
(*   SpecPatch   update_metadata_cid.py run over the generated metadata    *)
(***************************************************************************)
EXTENDS Integers, Sequences, FiniteSets

VARIABLES
    \* ---- generate_images.py ------------------------------------------
    pc,            \* position of the image process ("idle" = no process)
    exitCode,      \* how the last process ended: "none","0","1","killed"
    files,         \* output/images/<id>.png, per collection id
    caller,        \* who invoked generate_single: "main" or "direct"
    FAL_KEY,       \* module global: is the credential set (non-empty)
    token_ids,     \* main: the ids of the request, in order
    force,         \* main / generate_single: forced redo
    already_done,  \* main: resume counter
    to_generate,   \* main: ids handed to the pipeline
    idx,           \* main: 1-based position in to_generate (enumerate i + 1)
    successes, failures, failed_ids,
    delays,        \* main: number of inter-item sleeps taken in this run
    netRun,        \* TRUE once this run issued any network request
    token_id,      \* generate_single: current item
    entryFile,     \* the artifact as it was when generate_single was entered
    retry,         \* generate_single: loop variable of range(MAX_RETRIES)
    submits,       \* submit requests issued by this invocation
    nFAILED,       \* attempts of this invocation ended by a FAILED poll
    queue_resp,    \* which endpoints the submit response of the attempt carried
    polls,         \* poll requests issued by the current attempt
    status,        \* status observed by the last poll of the attempt
    err,           \* kind of the last per-attempt error ("none" if none)
    backoffs,      \* waits slept by the except handler of this invocation
    image_url,     \* reference extracted by the current attempt (0 = none)
    content,       \* resp.content of the current download
    ok,            \* return value of generate_single
    killed,        \* where the last kill hit the process
    \* ---- generate_prompts.py -----------------------------------------
    gpc,           \* position of the generator process
    schedule, seen_combos, agents, attempts, written,
    draws,         \* the random draws of the first run, in the order made
    rerun,         \* TRUE in a second run, which meets the same draws again
    first,         \* what the first run produced, kept for the comparison
    \* ---- extraction of the image reference ---------------------------
    result,        \* a result payload
    extracted,     \* what the extraction step made of it
    \* ---- generate_agent on its own -----------------------------------
    arg_token,     \* the token_id argument
    arg_extras,    \* the num_extras argument
    made,          \* <<>> before the call, <<agent>> after it
    \* ---- update_metadata_cid.py --------------------------------------
    metadata,      \* the "image" field of output/metadata/<id>.json
    cid,           \* the identifier of the last run, stripped
    updated,       \* the count the last run reported
    runs,          \* runs of the utility so far
    repeat,        \* the last run had the identifier of the run before it
    patchExit      \* exit status of the last run

imgVars == <<pc, exitCode, files, caller, FAL_KEY, token_ids, force,
             already_done, to_generate, idx, successes, failures, failed_ids,
             delays, netRun, token_id, entryFile, retry, submits, nFAILED,
             queue_resp, polls,
             status, err, backoffs, image_url, content, ok, killed>>
genVars == <<gpc, schedule, seen_combos, agents, attempts, written,
             draws, rerun, first>>
extractVars == <<result, extracted>>
agentVars   == <<arg_token, arg_extras, made>>
patchVars   == <<metadata, cid, updated, runs, repeat, patchExit>>
exVars  == <<extractVars, agentVars, patchVars>>
vars    == <<imgVars, genVars, exVars>>

(***************************************************************************)
(* Bounds of the model                                                     *)
(***************************************************************************)
NumAgents  == 2    \* ids 1..NumAgents are in full_collection.json
MaxChunks  == 2    \* an image body is written in at most MaxChunks pieces
MaxRef     == 2    \* distinct image references a payload may carry
MaxArgLen  == 3    \* characters of the argument of update_metadata_cid.py
MaxRuns    == 2    \* runs of update_metadata_cid.py in a row
MaxImages  == 1    \* longest image list of a result payload

max_attempts == 6  \* attempt budget of generation; 50000 in the source (line 254)

(***************************************************************************)
(* Configuration of generate_images.py                                     *)
(***************************************************************************)
MAX_POLL_ATTEMPTS == 3     \* 150 in the source (line 29), scaled down
MAX_RETRIES       == 3

RECURSIVE Pow2(_)
Pow2(n) == IF n = 0 THEN 1 ELSE 2 * Pow2(n - 1)

CollectionIds == 1..NumAgents
RequestIds    == 1..(NumAgents + 1)   \* ids the arguments may name; the last is unknown


(***************************************************************************)
(* The artifact directory.  A file either does not exist or holds the      *)
(* pieces written so far.                                                  *)
(***************************************************************************)
Absent      == [exists |-> FALSE, data |-> <<>>]
FileOf(d)   == [exists |-> TRUE, data |-> d]

RECURSIVE SeqsUpTo(_, _)
SeqsUpTo(S, n) ==
    IF n = 0 THEN {<<>>}
    ELSE LET shorter == SeqsUpTo(S, n - 1)
         IN  shorter \cup {Append(s, x) : s \in {t \in shorter : Len(t) = n - 1}, x \in S}

\* bodies a download may return: <<>>, <<1>>, <<1, 2>>, ...
Contents  == {[k \in 1..n |-> k] : n \in 0..MaxChunks}
\* parsed --redo arguments: one id or two, repeats allowed
RedoLists == {s \in SeqsUpTo(RequestIds, 2) : s # <<>>}

\* os.path.exists(dest) and os.path.getsize(dest) > 0
NonEmptyArtifact(f) == f.exists /\ Len(f.data) > 0

\* a resume test that asks for more than one piece (size > 1 instead of > 0)
AlreadyDone_SizeOffByOne(frc, f) == ~frc /\ f.exists /\ Len(f.data) > 1

\* a resume test that ignores the force flag
AlreadyDone_IgnoresForce(frc, f) == NonEmptyArtifact(f)

\* the resume test of main (line 199) and generate_single (line 103)
AlreadyDone(frc, f) == ~frc /\ NonEmptyArtifact(f)

(***************************************************************************)
(* Result payloads and the extraction step (generate_single, step 4).      *)
(* An image list is a sequence (a missing key, null and [] all read as the *)
(* empty sequence); an entry is a bare reference (field bare) or an object *)
(* holding one under "url"; reference 0 stands for a missing or empty      *)
(* (falsy) reference.                                                      *)
(* A wrapper ("output", "data") is missing, not a dict, or a dict.         *)
(***************************************************************************)
Entries    == [isdict : {TRUE}, url : 0..MaxRef, bare : {0}]
                 \cup [isdict : {FALSE}, url : {0}, bare : 0..MaxRef]
ImageLists == SeqsUpTo(Entries, MaxImages)
Wrappers   == [kind : {"missing", "nondict"}, images : {<<>>}]
                 \cup [kind : {"dict"}, images : ImageLists]
Payloads   == [images : ImageLists, output : Wrappers, data : Wrappers]

EmptyDict  == [kind |-> "dict", images |-> <<>>]
NoPayload  == [images |-> <<>>, output |-> [kind |-> "missing", images |-> <<>>],
               data |-> [kind |-> "missing", images |-> <<>>]]

\* a fallback that looks under "output" only
OutputOrData_OutputOnly(r) ==
    IF r.output.kind # "missing" THEN r.output ELSE EmptyDict

\* result.get("output", result.get("data", {}))
OutputOrData(r) ==
    IF r.output.kind # "missing" THEN r.output
    ELSE IF r.data.kind # "missing" THEN r.data
    ELSE EmptyDict

\* lines 124-129: the image list the extraction settles on
ImagesOf(r) ==
    IF r.images # <<>> THEN r.images
    ELSE LET output == OutputOrData(r)
         IN  IF output.kind = "dict" THEN output.images ELSE <<>>

\* lines 124-136: the reference extracted, 0 when the step raises
ExtractImageUrl(r) ==
    LET images == ImagesOf(r)
    IN  IF images = <<>> THEN 0
        ELSE IF images[1].isdict THEN images[1].url ELSE images[1].bare

\* every outcome the extraction step can have for a fetched payload
ExtractOutcomes == {ExtractImageUrl(r) : r \in Payloads}

(***************************************************************************)
(* Strings of the metadata documents (update_metadata_cid.py)              *)
(* A string is a sequence of symbols; a symbol is one character, or a      *)
(* stretch of text that holds no character of the placeholder.             *)
(***************************************************************************)
\* the placeholder YOUR_CID_HERE, written with its first and last letter
PLACEHOLDER == <<"Y", "E">>

Digits == <<"1", "2", "3", "4", "5", "6", "7", "8", "9">>

\* build_opensea_metadata: f"ipfs://YOUR_CID_HERE/{tid:04d}.png"
MetadataImage(tid) == <<"ipfs://">> \o PLACEHOLDER \o <<"/", Digits[tid], ".png">>

\* the characters a command-line argument is made of
ArgChars == {" ", "Y", "E"}

\* sys.argv[1]
Args == UNION {[1..n -> ArgChars] : n \in 0..MaxArgLen}

\* no run has had an identifier yet (no argument is equal to this)
NoCid == <<"none">>

RECURSIVE LStrip(_)
LStrip(s) == IF s # <<>> /\ Head(s) = " " THEN LStrip(Tail(s)) ELSE s

RECURSIVE RStrip(_)
RStrip(s) == IF s # <<>> /\ s[Len(s)] = " "
             THEN RStrip(SubSeq(s, 1, Len(s) - 1)) ELSE s

\* str.strip()
Strip(s) == RStrip(LStrip(s))

RECURSIVE Replace(_, _, _)
\* str.replace(old, new) for a non-empty old: every occurrence, found from
\* the left and not overlapping, is replaced; the result is not rescanned
Replace(s, old, new) ==
    IF Len(s) < Len(old) THEN s
    ELSE IF SubSeq(s, 1, Len(old)) = old
    THEN new \o Replace(SubSeq(s, Len(old) + 1, Len(s)), old, new)
    ELSE <<Head(s)>> \o Replace(Tail(s), old, new)

(***************************************************************************)
(* Initial state of the image process                                      *)
(***************************************************************************)
NoKill == [at |-> "none", tid |-> 0, content |-> <<>>]

\* no submit response held: neither endpoint is known
NoResp == [status_url |-> FALSE, response_url |-> FALSE]

\* the locals of one generate_single invocation, before it is entered
SingleReset ==
    /\ token_id' = 0
    /\ entryFile' = Absent
    /\ retry' = 0
    /\ submits' = 0
    /\ nFAILED' = 0
    /\ queue_resp' = NoResp
    /\ polls' = 0
    /\ status' = "none"
    /\ err' = "none"
    /\ backoffs' = <<>>
    /\ image_url' = 0
    /\ content' = <<>>
    /\ ok' = FALSE

\* the locals of main, before it is entered
MainReset ==
    /\ FAL_KEY' = TRUE
    /\ token_ids' = <<>>
    /\ force' = FALSE
    /\ already_done' = 0
    /\ to_generate' = <<>>
    /\ idx' = 0
    /\ successes' = 0
    /\ failures' = 0
    /\ failed_ids' = <<>>
    /\ delays' = 0

ImgInit ==
    /\ pc = "idle"
    /\ exitCode = "none"
    /\ files = [t \in CollectionIds |-> Absent]
    /\ caller = "none"
    /\ FAL_KEY = TRUE
    /\ token_ids = <<>>
    /\ force = FALSE
    /\ already_done = 0
    /\ to_generate = <<>>
    /\ idx = 0
    /\ successes = 0
    /\ failures = 0
    /\ failed_ids = <<>>
    /\ delays = 0
    /\ netRun = FALSE
    /\ token_id = 0
    /\ entryFile = Absent
    /\ retry = 0
    /\ submits = 0
    /\ nFAILED = 0
    /\ queue_resp = NoResp
    /\ polls = 0
    /\ status = "none"
    /\ err = "none"
    /\ backoffs = <<>>
    /\ image_url = 0
    /\ content = <<>>
    /\ ok = FALSE
    /\ killed = NoKill

\* nothing kept of a first run
NoFirst == [schedule |-> <<>>, agents |-> <<>>, outcome |-> "none"]

GenOff ==
    /\ gpc = "start"
    /\ schedule = <<>>
    /\ seen_combos = {}
    /\ agents = <<>>
    /\ attempts = 0
    /\ written = FALSE
    /\ draws = <<>>
    /\ rerun = FALSE
    /\ first = NoFirst

AgentOff ==
    /\ arg_token = 0
    /\ arg_extras = 0
    /\ made = <<>>

\* the metadata documents as generate_prompts.py wrote them
PatchOff ==
    /\ metadata = [t \in CollectionIds |-> MetadataImage(t)]
    /\ cid = NoCid
    /\ updated = 0
    /\ runs = 0
    /\ repeat = FALSE
    /\ patchExit = "none"

ExOff ==
    /\ result = NoPayload
    /\ extracted = -1
    /\ AgentOff
    /\ PatchOff

Init == ImgInit /\ GenOff /\ ExOff


(***************************************************************************)
(* generate_single (lines 97-148)                                          *)
(***************************************************************************)
mainLocals   == <<FAL_KEY, token_ids, force, already_done, to_generate, idx,
                  successes, failures, failed_ids, delays>>
attemptVars  == <<polls, status, image_url, content>>

\* lines 99-106: entry, resume gate, first iteration of the retry loop
Enter(tid, frc, who) ==
    /\ caller' = who
    /\ token_id' = tid
    /\ entryFile' = files[tid]
    /\ retry' = 0
    /\ submits' = 0
    /\ nFAILED' = 0
    /\ queue_resp' = NoResp
    /\ polls' = 0
    /\ status' = "none"
    /\ err' = "none"
    /\ backoffs' = <<>>
    /\ image_url' = 0
    /\ content' = <<>>
    /\ IF AlreadyDone(frc, files[tid])
       THEN pc' = "ret" /\ ok' = TRUE
       ELSE pc' = "submit" /\ ok' = FALSE

\* a retry loop that runs once more
RetriesLeft_OneMore(r) == r < MAX_RETRIES

\* line 106: for retry in range(MAX_RETRIES): is there a try after this one
RetriesLeft(r) == r < MAX_RETRIES - 1

\* lines 141-144, 148: the except handler up to the sleep; after the last
\* attempt the loop ends and generate_single returns False
Fail(kind) ==
    /\ err' = kind
    /\ nFAILED' = IF kind = "FAILED" THEN nFAILED + 1 ELSE nFAILED
    /\ queue_resp' = NoResp
    /\ polls' = 0
    /\ status' = "none"
    /\ image_url' = 0
    /\ content' = <<>>
    /\ ok' = FALSE
    /\ UNCHANGED <<backoffs, retry>>
    /\ pc' = IF RetriesLeft(retry) THEN "backoff" ELSE "ret"

\* a wait of 2 ** retry
BackoffWait_FromZero(r) == Pow2(r)

\* line 142: wait = 2 ** (retry + 1)
BackoffWait(r) == Pow2(r + 1)

\* lines 144-146: time.sleep(wait), then the next attempt
Backoff ==
    /\ pc = "backoff"
    /\ backoffs' = Append(backoffs, BackoffWait(retry))
    /\ retry' = retry + 1
    /\ err' = "none"
    /\ pc' = "submit"
    /\ UNCHANGED <<exitCode, files, caller, mainLocals, netRun, token_id,
                   entryFile, submits, nFAILED, queue_resp, polls, status, image_url,
                   content, ok, killed, genVars, exVars>>

\* a check that lets a response through when either endpoint is there
EndpointsOk_Either(status_url, response_url) == status_url \/ response_url

\* line 114: if not status_url or not response_url: raise
EndpointsOk(status_url, response_url) == status_url /\ response_url

\* lines 109-115: submit_request and the check of the two endpoints
Submit ==
    /\ pc = "submit"
    /\ submits' = submits + 1
    /\ netRun' = TRUE
    /\ \E http_ok \in BOOLEAN, status_url \in BOOLEAN, response_url \in BOOLEAN :
          IF ~http_ok THEN Fail("submit")
          ELSE IF ~EndpointsOk(status_url, response_url) THEN Fail("endpoints")
          ELSE /\ pc' = "poll"
               /\ queue_resp' = [status_url |-> status_url,
                                 response_url |-> response_url]
               /\ UNCHANGED <<err, nFAILED, polls, status, image_url, content,
                              ok, backoffs, retry>>
    /\ UNCHANGED <<exitCode, files, caller, mainLocals, token_id, entryFile,
                   killed, genVars, exVars>>

\* "UNKNOWN" is what data.get("status", "UNKNOWN") yields without a status
Statuses == {"IN_PROGRESS", "UNKNOWN", "COMPLETED", "FAILED", "CANCELLED"}

\* a loop bound that lets one more poll through
PollsLeft_OneMore(n) == n <= MAX_POLL_ATTEMPTS

\* line 60: for attempt in range(MAX_POLL_ATTEMPTS), after n polls
PollsLeft(n) == n < MAX_POLL_ATTEMPTS

\* lines 60-79: one iteration of poll_until_done, and the timeout after the last
Poll ==
    /\ pc = "poll"
    /\ netRun' = TRUE
    /\ \E http_ok \in BOOLEAN, st \in Statuses :
          IF ~http_ok THEN Fail("poll")
          ELSE IF st = "COMPLETED"
          THEN /\ pc' = "fetch"        \* poll_until_done returns
               /\ polls' = 0
               /\ status' = st
               /\ UNCHANGED <<err, nFAILED, queue_resp, image_url, content, ok, backoffs, retry>>
          ELSE IF st \in {"FAILED", "CANCELLED"} THEN Fail(st)
          ELSE IF ~PollsLeft(polls + 1) THEN Fail("timeout")
          ELSE /\ pc' = "poll"
               /\ polls' = polls + 1
               /\ status' = st
               /\ UNCHANGED <<err, nFAILED, queue_resp, image_url, content, ok, backoffs, retry>>
    /\ UNCHANGED <<exitCode, files, caller, mainLocals, token_id, entryFile,
                   submits, killed, genVars, exVars>>

\* lines 121-136: fetch_result and the extraction of the image reference
Fetch ==
    /\ pc = "fetch"
    /\ netRun' = TRUE
    /\ \E http_ok \in BOOLEAN, url \in ExtractOutcomes :
          IF ~http_ok THEN Fail("fetch")
          ELSE IF url = 0 THEN Fail("shape")
          ELSE /\ pc' = "download"
               /\ image_url' = url
               /\ UNCHANGED <<err, nFAILED, queue_resp, polls, status, content, ok, backoffs, retry>>
    /\ UNCHANGED <<exitCode, files, caller, mainLocals, token_id, entryFile,
                   submits, killed, genVars, exVars>>

\* a download that opens the artifact for writing before it makes the request
Download_OpenFirst ==
    /\ pc = "download"
    /\ netRun' = TRUE
    /\ files' = [files EXCEPT ![token_id] = FileOf(<<>>)]
    /\ \E http_ok \in BOOLEAN, body \in Contents :
          IF ~http_ok THEN Fail("download")
          ELSE /\ pc' = "open"
               /\ content' = body
               /\ UNCHANGED <<err, nFAILED, queue_resp, polls, status, image_url, ok, backoffs, retry>>
    /\ UNCHANGED <<exitCode, caller, mainLocals, token_id, entryFile,
                   submits, killed, genVars, exVars>>

\* lines 91-92: the HTTP request of download_image
Download ==
    /\ pc = "download"
    /\ netRun' = TRUE
    /\ \E http_ok \in BOOLEAN, body \in Contents :
          IF ~http_ok THEN Fail("download")
          ELSE /\ pc' = "open"
               /\ content' = body
               /\ UNCHANGED <<err, nFAILED, queue_resp, polls, status, image_url, ok, backoffs, retry>>
    /\ UNCHANGED <<exitCode, files, caller, mainLocals, token_id, entryFile,
                   submits, killed, genVars, exVars>>

\* line 93: open(dest_path, "wb") creates or truncates the artifact
Open ==
    /\ pc = "open"
    /\ files' = [files EXCEPT ![token_id] = FileOf(<<>>)]
    /\ pc' = "write"
    /\ UNCHANGED <<exitCode, caller, mainLocals, netRun, token_id, entryFile,
                   retry, submits, nFAILED, queue_resp, polls, status, err, backoffs,
                   image_url, content, ok, killed, genVars, exVars>>

\* line 94: the next piece of resp.content reaches the file
Write ==
    /\ pc = "write"
    /\ Len(files[token_id].data) < Len(content)
    /\ files' = [files EXCEPT ![token_id] =
                    FileOf(Append(@.data, content[Len(@.data) + 1]))]
    /\ UNCHANGED <<pc, exitCode, caller, mainLocals, netRun, token_id, entryFile,
                   retry, submits, nFAILED, queue_resp, polls, status, err, backoffs,
                   image_url, content, ok, killed, genVars, exVars>>

\* lines 94, 139: the body is written, the file is closed, return True
ReturnTrue ==
    /\ pc = "write"
    /\ Len(files[token_id].data) = Len(content)
    /\ pc' = "ret"
    /\ ok' = TRUE
    /\ UNCHANGED <<exitCode, files, caller, mainLocals, netRun, token_id,
                   entryFile, retry, submits, nFAILED, queue_resp, polls, status, err,
                   backoffs, image_url, content, killed, genVars, exVars>>


(***************************************************************************)
(* main (lines 153-249)                                                    *)
(***************************************************************************)
RECURSIVE Range(_, _)
\* list(range(a, b + 1))
Range(a, b) == IF a > b THEN <<>> ELSE <<a>> \o Range(a + 1, b)

RECURSIVE ToGenerate(_, _, _)
\* lines 193-202: the ids of the request that are in the collection and
\* whose artifact does not pass the resume test
ToGenerate(ids, frc, fs) ==
    IF ids = <<>> THEN <<>>
    ELSE LET tid == Head(ids)
             rest == ToGenerate(Tail(ids), frc, fs)
         IN  IF tid \notin CollectionIds THEN rest
             ELSE IF AlreadyDone(frc, fs[tid]) THEN rest
             ELSE <<tid>> \o rest

RECURSIVE CountDone(_, _, _)
\* lines 192-200: already_done
CountDone(ids, frc, fs) ==
    IF ids = <<>> THEN 0
    ELSE LET tid == Head(ids)
             rest == CountDone(Tail(ids), frc, fs)
         IN  IF tid \in CollectionIds /\ AlreadyDone(frc, fs[tid])
             THEN rest + 1 ELSE rest

\* a credential check that never stops the run
NoCredential_Never(key_set) == FALSE

\* line 168: if not FAL_KEY
NoCredential(key_set) == ~key_set

\* lines 168-212 for the request (ids, frc): credential check, scan of the
\* artifacts, early return when nothing is left to generate
Startup(key_set, ids, frc) ==
    /\ pc = "idle"
    /\ killed' = NoKill
    /\ netRun' = FALSE
    /\ caller' = "main"
    /\ SingleReset
    /\ successes' = 0
    /\ failures' = 0
    /\ failed_ids' = <<>>
    /\ delays' = 0
    /\ FAL_KEY' = key_set
    /\ IF NoCredential(key_set)
       THEN /\ exitCode' = "1"
            /\ pc' = "idle"
            /\ token_ids' = <<>>
            /\ force' = FALSE
            /\ already_done' = 0
            /\ to_generate' = <<>>
            /\ idx' = 0
       ELSE /\ token_ids' = ids
            /\ force' = frc
            /\ already_done' = CountDone(ids, frc, files)
            /\ to_generate' = ToGenerate(ids, frc, files)
            /\ IF ToGenerate(ids, frc, files) = <<>>
               THEN exitCode' = "0" /\ pc' = "idle" /\ idx' = 0
               ELSE exitCode' = "none" /\ pc' = "loop" /\ idx' = 1
    /\ UNCHANGED <<files, genVars, exVars>>

\* lines 180-187: --redo list, else --start/--end
MainStart ==
    \E key_set \in BOOLEAN :
       \/ \E redo \in RedoLists : Startup(key_set, redo, TRUE)
       \/ \E start \in RequestIds, end \in RequestIds :
             Startup(key_set, Range(start, end), FALSE)

\* lines 218-223: the next item is handed to generate_single
MainCall ==
    /\ pc = "loop"
    /\ Enter(to_generate[idx], force, "main")
    /\ UNCHANGED <<exitCode, files, mainLocals, netRun, killed, genVars, exVars>>

\* a loop that gives up on the remaining items after the first failure
MainRecord_StopOnFailure ==
    /\ pc = "ret"
    /\ caller = "main"
    /\ IF ok
       THEN successes' = successes + 1 /\ UNCHANGED <<failures, failed_ids>>
       ELSE /\ failures' = failures + 1
            /\ failed_ids' = Append(failed_ids, token_id)
            /\ UNCHANGED successes
    /\ IF ok /\ idx < Len(to_generate)
       THEN /\ delays' = delays + 1
            /\ idx' = idx + 1
            /\ pc' = "loop"
            /\ UNCHANGED exitCode
       ELSE /\ pc' = "idle"
            /\ exitCode' = IF ok THEN "0" ELSE "1"
            /\ UNCHANGED <<delays, idx>>
    /\ SingleReset
    /\ UNCHANGED <<files, caller, FAL_KEY, token_ids, force, already_done,
                   to_generate, netRun, killed, genVars, exVars>>

\* a loop that sleeps after every item, the last one too
MainRecord_DelayAfterLast ==
    /\ pc = "ret"
    /\ caller = "main"
    /\ IF ok
       THEN successes' = successes + 1 /\ UNCHANGED <<failures, failed_ids>>
       ELSE /\ failures' = failures + 1
            /\ failed_ids' = Append(failed_ids, token_id)
            /\ UNCHANGED successes
    /\ delays' = delays + 1
    /\ IF idx < Len(to_generate)
       THEN /\ idx' = idx + 1
            /\ pc' = "loop"
            /\ UNCHANGED exitCode
       ELSE /\ pc' = "idle"
            /\ exitCode' = "0"
            /\ UNCHANGED idx
    /\ SingleReset
    /\ UNCHANGED <<files, caller, FAL_KEY, token_ids, force, already_done,
                   to_generate, netRun, killed, genVars, exVars>>

\* lines 225-235, 238-249: bookkeeping of the result, the inter-item delay,
\* and after the last item the summary and the normal exit
MainRecord ==
    /\ pc = "ret"
    /\ caller = "main"
    /\ IF ok
       THEN successes' = successes + 1 /\ UNCHANGED <<failures, failed_ids>>
       ELSE /\ failures' = failures + 1
            /\ failed_ids' = Append(failed_ids, token_id)
            /\ UNCHANGED successes
    /\ IF idx < Len(to_generate)
       THEN /\ delays' = delays + 1
            /\ idx' = idx + 1
            /\ pc' = "loop"
            /\ UNCHANGED exitCode
       ELSE /\ pc' = "idle"
            /\ exitCode' = "0"
            /\ UNCHANGED <<delays, idx>>
    /\ SingleReset
    /\ UNCHANGED <<files, caller, FAL_KEY, token_ids, force, already_done,
                   to_generate, netRun, killed, genVars, exVars>>

\* generate_single called on its own (as a library function)
DirectCall ==
    /\ pc = "idle"
    /\ \E tid \in CollectionIds, frc \in BOOLEAN :
          /\ Enter(tid, frc, "direct")
          /\ force' = frc
    /\ exitCode' = "none"
    /\ killed' = NoKill
    /\ netRun' = FALSE
    /\ FAL_KEY' = TRUE
    /\ token_ids' = <<>>
    /\ already_done' = 0
    /\ to_generate' = <<>>
    /\ idx' = 0
    /\ successes' = 0
    /\ failures' = 0
    /\ failed_ids' = <<>>
    /\ delays' = 0
    /\ UNCHANGED <<files, genVars, exVars>>

DirectReturn ==
    /\ pc = "ret"
    /\ caller = "direct"
    /\ pc' = "idle"
    /\ exitCode' = "0"
    /\ SingleReset
    /\ UNCHANGED <<files, caller, mainLocals, netRun, killed, genVars, exVars>>

\* the process is killed (SIGKILL, power loss): only the files survive
Kill ==
    /\ pc # "idle"
    /\ killed' = IF pc \in {"open", "write"}
                 THEN [at |-> pc, tid |-> token_id, content |-> content]
                 ELSE [at |-> pc, tid |-> 0, content |-> <<>>]
    /\ pc' = "idle"
    /\ exitCode' = "killed"
    /\ caller' = "none"
    /\ netRun' = FALSE
    /\ MainReset
    /\ SingleReset
    /\ UNCHANGED <<files, genVars, exVars>>

Next ==
    \/ MainStart
    \/ MainCall
    \/ Submit
    \/ Backoff
    \/ Poll
    \/ Fetch
    \/ Download
    \/ Open
    \/ Write
    \/ ReturnTrue
    \/ MainRecord
    \/ DirectCall
    \/ DirectReturn
    \/ Kill

Spec == Init /\ [][Next]_vars


(***************************************************************************)
(* generate_prompts.py: trait pools, rarity table (scaled down)            *)
(***************************************************************************)
MandatoryCategories == {"suit_style", "sunglasses", "hair_style", "hair_color",
                        "skin_tone", "background", "expression"}
OptionalCategories  == {"accessory", "tattoo", "piercing", "freckles"}
Categories          == MandatoryCategories \cup OptionalCategories

\* number of values in the pool of each category; a value is 1..PoolSize[c],
\* and 0 is None, the mark of an absent optional trait
PoolSize == [c \in Categories |-> IF c = "hair_color" THEN 2 ELSE 1]

\* extras-count -> number of agents (400/760/600/200/40 in the source)
RARITY_WEIGHTS == [k \in 0..4 |-> CASE k = 0 -> 2 [] k = 1 -> 1 [] k = 2 -> 1
                                     [] k = 3 -> 0 [] k = 4 -> 0]

RARITY_LABELS == [k \in 0..4 |-> CASE k = 0 -> "Common" [] k = 1 -> "Uncommon"
                                    [] k = 2 -> "Rare" [] OTHER -> "Legendary"]

RECURSIVE Repeat(_, _)
\* [x] * n
Repeat(x, n) == IF n = 0 THEN <<>> ELSE <<x>> \o Repeat(x, n - 1)

RECURSIVE ScheduleFrom(_)
\* lines 244-246: the schedule before the shuffle, extras-counts k..4
ScheduleFrom(k) ==
    IF k > 4 THEN <<>> ELSE Repeat(k, RARITY_WEIGHTS[k]) \o ScheduleFrom(k + 1)

\* line 247: the collection size the assert expects (2000 in the source)
TotalAgents == Len(ScheduleFrom(0))

CountOf(s, k) == Cardinality({i \in 1..Len(s) : s[i] = k})

\* a shuffle that draws every position afresh (with replacement)
Shuffles_Redraw(base) == [1..Len(base) -> {base[i] : i \in 1..Len(base)}]

\* line 248: the orders random.shuffle can leave the list in
Shuffles(base) ==
    {s \in [1..Len(base) -> 0..4] : \A k \in 0..4 : CountOf(s, k) = CountOf(base, k)}

\* a sample drawn with replacement: up to k distinct members
Sample_WithReplacement(population, k) ==
    {cs \in SUBSET population : Cardinality(cs) <= k /\ (k > 0 => cs # {})}

\* random.sample(population, k): k distinct members
Sample(population, k) == {cs \in SUBSET population : Cardinality(cs) = k}

MaxPool == CHOOSE n \in 1..8 : \A c \in Categories : PoolSize[c] <= n

\* lines 151-160: pick_extras, every result random.sample/random.choice allow
PickExtras(num_extras) ==
    UNION {
        {e \in [OptionalCategories -> 0..MaxPool] :
            \A c \in OptionalCategories :
                IF c \in cats THEN e[c] \in 1..PoolSize[c] ELSE e[c] = 0}
        : cats \in Sample(OptionalCategories, num_extras)}

\* lines 165-173: one random.choice per mandatory category
PickMandatory ==
    {m \in [MandatoryCategories -> 1..MaxPool] :
        \A c \in MandatoryCategories : m[c] <= PoolSize[c]}

\* a piece of prompt text without a comma: a fixed phrase, or the phrase of
\* a trait value
Fixed(name)      == [cat |-> name, val |-> <<>>]
Fragment(t, c)   == [cat |-> c, val |-> <<t[c]>>]

\* the comma (and the blank after it) inside a string
Comma == [cat |-> ",", val |-> <<>>]

\* a part that is there whatever the value is
Optional_Always(t, c) == <<<<Fragment(t, c)>>>>

\* lines 185-186, 190-195: if traits.get(c): parts.append(traits[c])
Optional(t, c)   == IF t[c] # 0 THEN <<<<Fragment(t, c)>>>> ELSE <<>>

\* line 181: the opening part, a string with two commas in it
IntroPart == <<Fixed("Chibi agent"), Comma, Fixed("oversized head"), Comma,
               Fixed("large glossy black eyes with white highlights")>>

\* line 197: the closing part, a string with one comma in it
StylePart == <<Fixed("kawaii digital art"), Comma,
               Fixed("NFT collectible card style")>>

\* lines 180-198: the parts of the prompt, in order, before ", ".join;
\* a part is a string, a string is a sequence of pieces and commas
PromptParts(t) ==
    <<IntroPart,
      <<[cat |-> "hair", val |-> <<t["hair_color"], t["hair_style"]>>]>>,
      <<Fragment(t, "skin_tone")>> >>
    \o Optional(t, "freckles")
    \o << <<Fragment(t, "expression")>>, <<Fragment(t, "suit_style")>>,
          <<Fragment(t, "sunglasses")>> >>
    \o Optional(t, "accessory")
    \o Optional(t, "tattoo")
    \o Optional(t, "piercing")
    \o << <<Fixed("chest-up portrait")>>, <<Fragment(t, "background")>>,
          StylePart >>

RECURSIVE Join(_)
\* line 200: ", ".join(parts)
Join(parts) ==
    IF parts = <<>> THEN <<>>
    ELSE IF Len(parts) = 1 THEN parts[1]
    ELSE parts[1] \o <<Comma>> \o Join(Tail(parts))

\* generate_agent for given outcomes of its random draws: m of the seven
\* random.choice calls, e of pick_extras
AgentFrom(tid, num_extras, m, e) ==
    LET traits == [c \in Categories |->
                      IF c \in MandatoryCategories THEN m[c] ELSE e[c]]
    IN  [token_id |-> tid,
         traits |-> traits,
         rarity |-> RARITY_LABELS[num_extras],
         num_extras |-> num_extras,
         prompt |-> Join(PromptParts(traits))]

\* lines 163-208: generate_agent, every agent the random draws allow
GenerateAgent(tid, num_extras) ==
    {AgentFrom(tid, num_extras, m, e)
     : m \in PickMandatory, e \in PickExtras(num_extras)}

\* lines 263-269: the hashable key of a trait assignment
ComboKey(t) ==
    <<t["suit_style"], t["sunglasses"], t["hair_style"], t["hair_color"],
      t["skin_tone"], t["background"], t["expression"],
      t["accessory"], t["tattoo"], t["piercing"], t["freckles"]>>

\* a uniqueness test that forgets the combinations of earlier items
IsNewCombo_Forgetful(key, seen) == key \notin {}

\* line 270: the uniqueness test
IsNewCombo(key, seen) == key \notin seen

(***************************************************************************)
(* main of generate_prompts.py (lines 242-297)                             *)
(***************************************************************************)
\* the outcomes one pass of the while loop can draw for extras-count k
AttemptDraws(k) == [m : PickMandatory, e : PickExtras(k)]

\* the draw pass number n meets: any in a first run; in a second run, seeded
\* alike, the one the first run met at the same place
DrawsAt(n, k) ==
    IF ~rerun THEN AttemptDraws(k)
    ELSE IF n <= Len(draws) THEN {draws[n]} ELSE {}

\* lines 244-248: build the schedule, check its length, shuffle it
BuildSchedule ==
    /\ gpc = "start"
    /\ IF Len(ScheduleFrom(0)) = TotalAgents
       THEN /\ \E s \in Shuffles(ScheduleFrom(0)) :
                  /\ rerun => s = first.schedule
                  /\ schedule' = s
            /\ gpc' = "generate"
       ELSE /\ schedule' = ScheduleFrom(0)
            /\ gpc' = "assert_failed"
    /\ UNCHANGED <<seen_combos, agents, attempts, written, draws, rerun, first,
                   imgVars, exVars>>

\* a budget that is counted per item: the counter restarts with each item
Attempt_PerItem ==
    /\ gpc = "generate"
    /\ Len(agents) < Len(schedule)
    /\ attempts < max_attempts
    /\ \E d \in DrawsAt(Len(draws) + 1, schedule[Len(agents) + 1]) :
          LET agent == AgentFrom(Len(agents) + 1, schedule[Len(agents) + 1],
                                 d.m, d.e)
          IN  /\ draws' = IF rerun THEN draws ELSE Append(draws, d)
              /\ IF IsNewCombo(ComboKey(agent.traits), seen_combos)
                 THEN /\ seen_combos' = seen_combos \cup {ComboKey(agent.traits)}
                      /\ agents' = Append(agents, agent)
                      /\ attempts' = 0
                 ELSE /\ attempts' = attempts + 1
                      /\ UNCHANGED <<seen_combos, agents>>
    /\ UNCHANGED <<gpc, schedule, written, rerun, first, imgVars, exVars>>

\* lines 256-273: one pass of the while loop for item Len(agents) + 1:
\* sample an agent, keep it if its key is new
Attempt ==
    /\ gpc = "generate"
    /\ Len(agents) < Len(schedule)
    /\ attempts < max_attempts
    /\ attempts' = attempts + 1
    /\ \E d \in DrawsAt(attempts + 1, schedule[Len(agents) + 1]) :
          LET agent == AgentFrom(Len(agents) + 1, schedule[Len(agents) + 1],
                                 d.m, d.e)
          IN  /\ draws' = IF rerun THEN draws ELSE Append(draws, d)
              /\ IF IsNewCombo(ComboKey(agent.traits), seen_combos)
                 THEN /\ seen_combos' = seen_combos \cup {ComboKey(agent.traits)}
                      /\ agents' = Append(agents, agent)
                 ELSE UNCHANGED <<seen_combos, agents>>
    /\ UNCHANGED <<gpc, schedule, written, rerun, first, imgVars, exVars>>

\* lines 274-276: the while condition fails, the else branch prints the
\* error and returns from main
Exhausted ==
    /\ gpc = "generate"
    /\ Len(agents) < Len(schedule)
    /\ attempts >= max_attempts
    /\ gpc' = "aborted"
    /\ UNCHANGED <<schedule, seen_combos, agents, attempts, written,
                   draws, rerun, first, imgVars, exVars>>

\* lines 280-297: the for loop is over, the collection is written out
Output ==
    /\ gpc = "generate"
    /\ Len(agents) = Len(schedule)
    /\ written' = TRUE
    /\ gpc' = "done"
    /\ UNCHANGED <<schedule, seen_combos, agents, attempts,
                   draws, rerun, first, imgVars, exVars>>

\* a second run that starts with the combinations the first run has seen
Rerun_KeepsSeen ==
    /\ gpc \in {"done", "aborted"}
    /\ ~rerun
    /\ rerun' = TRUE
    /\ first' = [schedule |-> schedule, agents |-> agents, outcome |-> gpc]
    /\ gpc' = "start"
    /\ schedule' = <<>>
    /\ seen_combos' = seen_combos
    /\ agents' = <<>>
    /\ attempts' = 0
    /\ written' = FALSE
    /\ UNCHANGED <<draws, imgVars, exVars>>

\* the script is run once more: line 9 seeds the generator as before, so the
\* draws come again in the same order; lines 250-254 start from empty locals
Rerun ==
    /\ gpc \in {"done", "aborted"}
    /\ ~rerun
    /\ rerun' = TRUE
    /\ first' = [schedule |-> schedule, agents |-> agents, outcome |-> gpc]
    /\ gpc' = "start"
    /\ schedule' = <<>>
    /\ seen_combos' = {}
    /\ agents' = <<>>
    /\ attempts' = 0
    /\ written' = FALSE
    /\ UNCHANGED <<draws, imgVars, exVars>>

NextGen ==
    \/ BuildSchedule
    \/ Attempt
    \/ Exhausted
    \/ Output
    \/ Rerun

SpecGen == Init /\ [][NextGen]_vars


(***************************************************************************)
(* The extraction step applied to every result payload                     *)
(***************************************************************************)
InitExtract ==
    /\ ImgInit
    /\ GenOff
    /\ AgentOff
    /\ PatchOff
    /\ result \in Payloads
    /\ extracted = -1

\* lines 124-136 on the payload at hand
Extract ==
    /\ extracted = -1
    /\ extracted' = ExtractImageUrl(result)
    /\ UNCHANGED <<result, imgVars, genVars, agentVars, patchVars>>

NextExtract == Extract

SpecExtract == InitExtract /\ [][NextExtract]_vars


(***************************************************************************)
(* generate_agent applied to every token id and extras-count               *)
(***************************************************************************)
InitAgent ==
    /\ ImgInit
    /\ GenOff
    /\ PatchOff
    /\ result = NoPayload
    /\ extracted = -1
    /\ arg_token \in 1..TotalAgents
    /\ arg_extras \in 0..4
    /\ made = <<>>

\* lines 163-208 for the arguments at hand
CallAgent ==
    /\ made = <<>>
    /\ \E agent \in GenerateAgent(arg_token, arg_extras) : made' = <<agent>>
    /\ UNCHANGED <<arg_token, arg_extras, imgVars, genVars, extractVars, patchVars>>

NextAgent == CallAgent

SpecAgent == InitAgent /\ [][NextAgent]_vars


(***************************************************************************)
(* update_metadata_cid.py, main (lines 12-46)                              *)
(***************************************************************************)
\* one run of the script: the usage check, then every metadata document has
\* the placeholder in its image field replaced and is written back if that
\* changed the field
PatchMain ==
    /\ runs < MaxRuns
    /\ runs' = runs + 1
    /\ \E given \in BOOLEAN, arg \in Args :
          IF ~given
          THEN /\ patchExit' = "1"
               /\ updated' = 0
               /\ repeat' = FALSE
               /\ UNCHANGED <<metadata, cid>>
          ELSE LET new_image == [t \in DOMAIN metadata |->
                                   Replace(metadata[t], PLACEHOLDER, Strip(arg))]
               IN  /\ cid' = Strip(arg)
                   /\ metadata' = new_image
                   /\ updated' = Cardinality({t \in DOMAIN metadata :
                                                new_image[t] # metadata[t]})
                   /\ repeat' = (Strip(arg) = cid)
                   /\ patchExit' = "0"
    /\ UNCHANGED <<imgVars, genVars, extractVars, agentVars>>

NextPatch == PatchMain

SpecPatch == Init /\ [][NextPatch]_vars


(***************************************************************************)
(* Properties of the generation run (SpecGen)                              *)
(***************************************************************************)
\* generation has completed: the for loop is over, the output step is next or done
GenerationComplete ==
    /\ gpc \in {"generate", "done"}
    /\ Len(schedule) = TotalAgents
    /\ Len(agents) = Len(schedule)

SameAssignment(a, b) == \A c \in Categories : a.traits[c] = b.traits[c]

\* C1: once generation has completed, no two items share a trait assignment
\* (the 7 mandatory values and the 4 optional values, None counted as a
\* value), and seen_combos has exactly one element per item.
C1_UniqueAssignments ==
    GenerationComplete =>
        /\ \A i, j \in 1..Len(agents) :
              i # j => ~SameAssignment(agents[i], agents[j])
        /\ Cardinality(seen_combos) = Len(agents)

\* the collection was written after at least one sample was rejected as a duplicate
C1_Witness ==
    /\ gpc = "done"
    /\ written
    /\ Len(agents) = TotalAgents
    /\ attempts > Len(agents)

\* C10: after generation, for every extras-count k the number of items with
\* num_extras = k equals RARITY_WEIGHTS[k], whatever the shuffle and however
\* many samples were rejected.
C10_ExtrasMatchWeights ==
    GenerationComplete =>
        \A k \in 0..4 :
            Cardinality({i \in 1..Len(agents) : agents[i].num_extras = k})
                = RARITY_WEIGHTS[k]

\* a completed run whose schedule was really permuted and that rejected a duplicate
C10_Witness ==
    /\ gpc = "done"
    /\ schedule # ScheduleFrom(0)
    /\ attempts > Len(agents)
    /\ \E i \in 1..Len(agents) : agents[i].num_extras # ScheduleFrom(0)[i]


(***************************************************************************)
(* Properties of the image run (Spec)                                      *)
(***************************************************************************)
InAttempt == pc \in {"submit", "poll", "fetch", "download", "open", "write", "backoff"}

\* the gate condition of line 103, on the artifact found at entry
GateHolds == ~force /\ NonEmptyArtifact(entryFile)

\* C2: if the process is killed while download_image is writing an item's
\* artifact, the file at the item's path is afterwards absent, empty or the
\* complete image, never a partly written file of non-zero size.
C2_AtomicPersist ==
    (exitCode = "killed" /\ killed.at = "write") =>
        \/ ~files[killed.tid].exists
        \/ files[killed.tid].data = <<>>
        \/ files[killed.tid].data = killed.content

\* every id of the list that is in the collection has a non-empty artifact
AllArtifactsPresent(ids, fs) ==
    \A n \in 1..Len(ids) :
        ids[n] \in CollectionIds => NonEmptyArtifact(fs[ids[n]])

\* C3: a non-forced run over a range whose collection ids all have a
\* non-empty artifact ends at once, without entering the pipeline (no
\* submit, poll, fetch or download), and leaves every artifact unchanged.
C3_ResumeIdempotence ==
    [][\A start \in RequestIds, end \in RequestIds :
          (/\ Startup(TRUE, Range(start, end), FALSE)
           /\ AllArtifactsPresent(Range(start, end), files))
          => /\ pc' = "idle"
             /\ exitCode' = "0"
             /\ to_generate' = <<>>
             /\ ~netRun'
             /\ files' = files]_vars

\* a second run over the whole collection, everything already on disk
C3_Witness ==
    /\ pc = "idle"
    /\ exitCode = "0"
    /\ caller = "main"
    /\ ~force
    /\ already_done = NumAgents
    /\ to_generate = <<>>
    /\ ~netRun
    /\ \A t \in CollectionIds : NonEmptyArtifact(files[t])

\* C4: the resume gate comes before any network activity and depends only
\* on force and the artifact: with force off and a non-empty artifact,
\* generate_single returns True with no request made and the file untouched;
\* with force on, or the artifact absent or empty, it never returns without
\* having submitted at least one job.
C4_ResumeGate ==
    /\ (InAttempt => ~GateHolds)
    /\ (pc = "ret" /\ GateHolds) =>
           /\ ok
           /\ submits = 0
           /\ files[token_id] = entryFile
           /\ (caller = "direct" => ~netRun)
    /\ (pc = "ret" /\ ~GateHolds) => submits >= 1

\* a forced redo from main of an item whose artifact was already complete
C4_Witness ==
    /\ pc = "ret"
    /\ caller = "main"
    /\ force
    /\ NonEmptyArtifact(entryFile)
    /\ submits >= 1

\* C5: for an item past the resume gate, if every attempt ended with the
\* service reporting FAILED, generate_single has made exactly MAX_RETRIES
\* submits when it returns, and returns False; main then records the id as
\* failed and goes on (next item, or normal end of the run).
C5_ExhaustedInv ==
    (pc = "ret" /\ ~GateHolds /\ nFAILED = submits) =>
        /\ submits = MAX_RETRIES
        /\ ~ok
        /\ err = "FAILED"

C5_RecordedAct ==
    (pc = "ret" /\ caller = "main" /\ ~ok /\ exitCode' # "killed") =>
        /\ failed_ids' = Append(failed_ids, token_id)
        /\ failures' = failures + 1
        /\ successes' = successes
        /\ \/ pc' = "loop" /\ idx' = idx + 1 /\ exitCode' = exitCode
           \/ pc' = "idle" /\ idx = Len(to_generate) /\ exitCode' = "0"

C5_RetryExhaustion == [](C5_ExhaustedInv) /\ [][C5_RecordedAct]_vars

\* an item of a run of main that the service failed three times
C5_Witness ==
    /\ pc = "ret"
    /\ caller = "main"
    /\ nFAILED = MAX_RETRIES
    /\ submits = MAX_RETRIES
    /\ ~ok

\* C6: whatever the service does, generate_single returns True or False
\* after at most MAX_RETRIES submits (False only after MAX_RETRIES caught
\* errors); main then takes the next item of the list or, after the last,
\* ends normally with every item accounted for; the exit code is non-zero
\* only when the credential is missing, never because an item failed.
C6_ContainedInv ==
    /\ submits <= MAX_RETRIES
    /\ pc = "ret" => /\ ok \in BOOLEAN
                     /\ ~ok => (submits = MAX_RETRIES /\ err # "none")
    /\ (pc = "idle" /\ exitCode = "0" /\ caller = "main") =>
           successes + failures = Len(to_generate)
    /\ exitCode = "1" => (failures = 0 /\ successes = 0 /\ ~netRun)

C6_ContinuesAct ==
    (pc = "ret" /\ caller = "main" /\ exitCode' # "killed") =>
        /\ successes' + failures' = idx
        /\ IF idx < Len(to_generate)
           THEN pc' = "loop" /\ idx' = idx + 1 /\ exitCode' = exitCode
           ELSE pc' = "idle" /\ exitCode' = "0"

C6_FailureContainment == [](C6_ContainedInv) /\ [][C6_ContinuesAct]_vars

\* a run that ended normally although its first item failed and a later one succeeded
C6_Witness ==
    /\ pc = "idle"
    /\ exitCode = "0"
    /\ caller = "main"
    /\ Len(to_generate) = 2
    /\ failed_ids = <<to_generate[1]>>
    /\ successes = 1

TerminalStatuses == {"COMPLETED", "FAILED", "CANCELLED"}

\* C7: an attempt issues at most MAX_POLL_ATTEMPTS polls; polling goes on
\* only after a non-terminal status, moves to fetch only on COMPLETED,
\* fails the attempt on FAILED/CANCELLED, and after MAX_POLL_ATTEMPTS
\* non-terminal polls fails it with a timeout, which costs one retry.
C7_PollInv ==
    /\ polls <= MAX_POLL_ATTEMPTS
    /\ pc = "poll" => (polls < MAX_POLL_ATTEMPTS /\ status \notin TerminalStatuses)
    /\ pc \in {"fetch", "download", "open", "write"} => status = "COMPLETED"

C7_PollAct ==
    /\ (pc = "poll" /\ pc' = "poll") =>
           (polls' = polls + 1 /\ status' \notin TerminalStatuses /\ retry' = retry)
    /\ (pc = "poll" /\ pc' = "fetch") => (status' = "COMPLETED" /\ retry' = retry)
    /\ (pc = "poll" /\ err' \in {"FAILED", "CANCELLED"}) => pc' \in {"backoff", "ret"}
    /\ (pc = "poll" /\ err' = "timeout") =>
           /\ polls = MAX_POLL_ATTEMPTS - 1
           /\ IF retry < MAX_RETRIES - 1
              THEN pc' = "backoff" /\ retry' = retry
              ELSE pc' = "ret" /\ ~ok'
    /\ (pc = "backoff" /\ pc' = "submit") => retry' = retry + 1

C7_PollingBounded == [](C7_PollInv) /\ [][C7_PollAct]_vars

\* an attempt that timed out
C7_Witness ==
    /\ pc \in {"backoff", "ret"}
    /\ err = "timeout"

\* C9: after failed attempt n < MAX_RETRIES the wait before attempt n + 1
\* is exactly 2^n, whatever failed; after the last failed attempt there is
\* no wait: generate_single returns False with MAX_RETRIES - 1 waits slept.
C9_BackoffSchedule ==
    /\ \A n \in 1..Len(backoffs) : backoffs[n] = 2^n
    /\ InAttempt => Len(backoffs) = retry
    /\ (pc = "ret" /\ ~ok) =>
           /\ retry = MAX_RETRIES - 1
           /\ Len(backoffs) = MAX_RETRIES - 1

\* an item given up after waits of 2 and 4, the last error a data-shape error
C9_Witness ==
    /\ pc = "ret"
    /\ ~ok
    /\ backoffs = <<2, 4>>
    /\ err = "shape"

(***************************************************************************)
(* Properties of the extraction step (SpecExtract)                         *)
(***************************************************************************)
Bare(x)   == [isdict |-> FALSE, url |-> 0, bare |-> x]
Object(x) == [isdict |-> TRUE, url |-> x, bare |-> 0]
Missing   == [kind |-> "missing", images |-> <<>>]

\* the three documented shapes, the first entry of the list being e
TopLevelShape(r, e) == r.images # <<>> /\ r.images[1] = e
OutputShape(r, e) ==
    /\ r.images = <<>>
    /\ r.output.kind = "dict" /\ r.output.images # <<>> /\ r.output.images[1] = e
DataShape(r, e) ==
    /\ r.images = <<>>
    /\ r.output = Missing
    /\ r.data.kind = "dict" /\ r.data.images # <<>> /\ r.data.images[1] = e
DocumentedShape(r, e) == TopLevelShape(r, e) \/ OutputShape(r, e) \/ DataShape(r, e)

\* C8: from each of the three documented shapes (top-level list, list under
\* "output", list under "data"), the first entry being a bare reference x
\* or an object with x under "url", the extraction yields x.
C8_ShapeTolerance ==
    extracted # -1 =>
        \A x \in 1..MaxRef : \A e \in {Bare(x), Object(x)} :
            DocumentedShape(result, e) => extracted = x

\* a data-wrapped list of one object was extracted
C8_Witness ==
    /\ extracted = MaxRef
    /\ DataShape(result, Object(MaxRef))
    /\ result.data.images = <<Object(MaxRef)>>


(***************************************************************************)
(* Properties of generate_agent (SpecAgent)                                *)
(***************************************************************************)
\* the optional categories an agent has a value for
PresentExtras(agent) == {c \in OptionalCategories : agent.traits[c] # 0}

\* C11: generate_agent(token_id, num_extras), for num_extras in 0..4, gives
\* every mandatory category a value of its pool, and gives a value to exactly
\* num_extras of the optional categories, leaving the others absent
C11_ExtrasCount ==
    made # <<>> =>
        /\ \A c \in MandatoryCategories : made[1].traits[c] \in 1..PoolSize[c]
        /\ \A c \in OptionalCategories : made[1].traits[c] \in 0..PoolSize[c]
        /\ Cardinality(PresentExtras(made[1])) = arg_extras
        /\ made[1].num_extras = arg_extras

C11_Witness ==
    /\ made # <<>>
    /\ arg_extras = 3
    /\ Cardinality(PresentExtras(made[1])) = 3
    /\ made[1].traits["freckles"] = 0


\* the first place of a comma in s, 0 if there is none
FirstComma(s) ==
    IF \E i \in 1..Len(s) : s[i] = Comma
    THEN CHOOSE i \in 1..Len(s) : s[i] = Comma /\ \A j \in 1..(i - 1) : s[j] # Comma
    ELSE 0

RECURSIVE Split(_)
\* the comma-delimited fragments of a string
Split(s) ==
    IF FirstComma(s) = 0 THEN <<s>>
    ELSE <<SubSeq(s, 1, FirstComma(s) - 1)>>
             \o Split(SubSeq(s, FirstComma(s) + 1, Len(s)))

\* what a fragment is about: a category, the pose, or one of the phrases of
\* the opening part or of the style tag
KindOf(fragment) ==
    IF Len(fragment) # 1 THEN "other"
    ELSE IF fragment[1].cat \in {"Chibi agent", "oversized head",
                                 "large glossy black eyes with white highlights"}
    THEN "intro"
    ELSE IF fragment[1].cat \in {"kawaii digital art", "NFT collectible card style"}
    THEN "style"
    ELSE IF fragment[1].cat = "chest-up portrait" THEN "pose"
    ELSE fragment[1].cat

KindsOf(fragments) == [i \in 1..Len(fragments) |-> KindOf(fragments[i])]

IfPresent(agent, c) == IF agent.traits[c] # 0 THEN <<c>> ELSE <<>>

\* hair, skin, [freckles], expression, suit, eyewear, [accessory], [tattoo],
\* [piercing], pose, background
TraitOrder(agent) ==
    <<"hair", "skin_tone">> \o IfPresent(agent, "freckles")
    \o <<"expression", "suit_style", "sunglasses">>
    \o IfPresent(agent, "accessory") \o IfPresent(agent, "tattoo")
    \o IfPresent(agent, "piercing") \o <<"pose", "background">>

\* the fragment of category c is in the prompt exactly when the trait is
\* present, and it then carries the value of the trait
OptionalIffPresent(agent) ==
    \A c \in OptionalCategories :
        /\ agent.traits[c] # 0 <=>
              \E i \in 1..Len(Split(agent.prompt)) : KindOf(Split(agent.prompt)[i]) = c
        /\ \A i \in 1..Len(Split(agent.prompt)) :
              KindOf(Split(agent.prompt)[i]) = c =>
                  Split(agent.prompt)[i] = <<Fragment(agent.traits, c)>>

NoOptionalVocabulary(agent) ==
    \A i \in 1..Len(Split(agent.prompt)) :
        KindOf(Split(agent.prompt)[i]) \notin OptionalCategories

NoneEmpty(agent) ==
    \A i \in 1..Len(Split(agent.prompt)) : Split(agent.prompt)[i] # <<>>

\* C17 as claimed: the prompt has a fragment for an optional category
\* exactly when the category is present, so it has exactly 9 + num_extras
\* comma-delimited fragments, none empty, in the order hair, skin,
\* [freckles], expression, suit, eyewear, [accessory], [tattoo], [piercing],
\* pose, background, style tag; without optional traits it holds none of
\* the optional vocabulary
C17_NinePlusExtras ==
    made # <<>> =>
        /\ OptionalIffPresent(made[1])
        /\ Len(Split(made[1].prompt)) = 9 + made[1].num_extras
        /\ NoneEmpty(made[1])
        /\ KindsOf(Split(made[1].prompt))
              = <<"intro">> \o TraitOrder(made[1]) \o <<"style">>
        /\ made[1].num_extras = 0 => NoOptionalVocabulary(made[1])

\* C17 amended: the prompt has a fragment for an optional category exactly
\* when the category is present; it joins 9 + num_extras parts, and as the
\* opening part holds two commas and the style tag one, it has exactly
\* 12 + num_extras comma-delimited fragments, none empty, in the order:
\* three opening fragments, hair, skin, [freckles], expression, suit,
\* eyewear, [accessory], [tattoo], [piercing], pose, background, two
\* style-tag fragments; without optional traits it holds none of the
\* optional vocabulary
C17_PromptRendering ==
    made # <<>> =>
        /\ OptionalIffPresent(made[1])
        /\ Len(PromptParts(made[1].traits)) = 9 + made[1].num_extras
        /\ made[1].prompt = Join(PromptParts(made[1].traits))
        /\ Len(Split(made[1].prompt)) = 12 + made[1].num_extras
        /\ NoneEmpty(made[1])
        /\ KindsOf(Split(made[1].prompt))
              = <<"intro", "intro", "intro">> \o TraitOrder(made[1])
                    \o <<"style", "style">>
        /\ made[1].num_extras = 0 => NoOptionalVocabulary(made[1])

\* a prompt of an agent with two optional traits, tattoo among them
C17_Witness ==
    /\ made # <<>>
    /\ arg_extras = 2
    /\ made[1].traits["tattoo"] # 0
    /\ made[1].traits["freckles"] = 0
    /\ Len(Split(made[1].prompt)) = 14


(***************************************************************************)
(* Properties of update_metadata_cid.py (SpecPatch)                        *)
(***************************************************************************)
\* C12: a run with the identifier of the run before it rewrites no metadata
\* document and reports the count zero, whatever the identifier is
C12_PatchIdempotent == repeat => updated = 0


(***************************************************************************)
(* Properties of the generation budget (SpecGen)                           *)
(***************************************************************************)
C13_BudgetInv ==
    /\ attempts <= max_attempts
    /\ Len(agents) <= attempts
    /\ gpc = "aborted" =>
          /\ ~written
          /\ attempts = max_attempts
          /\ Len(agents) < TotalAgents
    /\ written => Len(agents) = TotalAgents

C13_BudgetAct ==
    /\ (gpc = "generate" /\ gpc' = "generate") => attempts' >= attempts
    /\ (gpc = "generate" /\ attempts = max_attempts /\ Len(agents) < TotalAgents)
          => (gpc' = "aborted" /\ ~written')

\* C13: the attempts of all items together never exceed max_attempts; the
\* counter is shared by the items and never restarts with an item; when the
\* budget is used up before every item has its unique assignment, the run
\* stops there and writes none of its outputs
C13_GlobalBudget == []C13_BudgetInv /\ [][C13_BudgetAct]_vars

\* a first run that stopped on the budget with some items already accepted
C13_Witness ==
    /\ ~rerun
    /\ gpc = "aborted"
    /\ Len(agents) >= 1
    /\ attempts = max_attempts
    /\ ~written


C14_NoKeyInv ==
    ~FAL_KEY =>
        /\ caller = "main"
        /\ pc = "idle"
        /\ exitCode = "1"
        /\ ~netRun
        /\ submits = 0
        /\ to_generate = <<>>

C14_NoKeyAct == ~FAL_KEY' => (files' = files /\ pc = "idle")

\* C14: a run of main with an empty FAL_KEY exits with a non-zero status,
\* issues no submit, poll, fetch or download, and leaves every image
\* artifact as it was
C14_MissingCredential == []C14_NoKeyInv /\ [][C14_NoKeyAct]_vars

\* a run without the credential, started where an earlier run left an artifact
C14_Witness ==
    /\ ~FAL_KEY
    /\ exitCode = "1"
    /\ \E t \in CollectionIds : NonEmptyArtifact(files[t])

\* a run of main went through to its summary
RunEnded == caller = "main" /\ pc = "idle" /\ exitCode = "0" /\ FAL_KEY

RECURSIVE IsSubseq(_, _)
\* s can be had from t by dropping entries
IsSubseq(s, t) ==
    IF s = <<>> THEN TRUE
    ELSE IF t = <<>> THEN FALSE
    ELSE IF Head(s) = Head(t) THEN IsSubseq(Tail(s), Tail(t))
    ELSE IsSubseq(s, Tail(t))

Requested      == {token_ids[i] : i \in 1..Len(token_ids)}
\* at the end of a run every entry of to_generate has been handed over
Invocations(t) == CountOf(to_generate, t)
ClassAbsent(t)  == t \notin CollectionIds
ClassDone(t)    == t \in CollectionIds /\ Invocations(t) = 0
ClassFailed(t)  == CountOf(failed_ids, t) > 0
ClassSuccess(t) == Invocations(t) > CountOf(failed_ids, t)
ClassesOf(t) ==
    {c \in {"absent", "done", "success", "failed"} :
        \/ c = "absent" /\ ClassAbsent(t)
        \/ c = "done" /\ ClassDone(t)
        \/ c = "success" /\ ClassSuccess(t)
        \/ c = "failed" /\ ClassFailed(t)}

\* C15: at the end of a run every requested id is in exactly one of the
\* classes absent, already done, success, failed; the pipeline was invoked
\* exactly once for each id that succeeded or failed; successes + failures is
\* the number of invocations; failed_ids lists the failed ids in the order
\* they were processed
C15_RunAccounting ==
    RunEnded =>
        /\ \A t \in Requested : Cardinality(ClassesOf(t)) = 1
        /\ \A t \in Requested :
              (ClassSuccess(t) \/ ClassFailed(t)) => Invocations(t) = 1
        /\ successes + failures = Len(to_generate)
        /\ failures = Len(failed_ids)
        /\ IsSubseq(failed_ids, to_generate)
        /\ already_done =
              Cardinality({i \in 1..Len(token_ids) : ClassDone(token_ids[i])})

C16_DelayInv ==
    /\ (caller = "main" /\ pc # "idle") => delays = idx - 1
    /\ (RunEnded /\ to_generate # <<>>) => delays = Len(to_generate) - 1
    /\ caller # "main" => delays = 0

C16_DelayAct ==
    /\ delays' # delays => (delays' = delays + 1 \/ delays' = 0)
    /\ delays' = delays + 1 =>
          /\ pc = "ret" /\ pc' = "loop"
          /\ idx' = idx + 1
          /\ submits' = 0
    /\ (caller = "main" /\ pc = "ret" /\ pc' = "loop") => delays' = delays + 1

\* C16: between two consecutive items handed to the pipeline the delay is
\* taken exactly once, after the earlier item has returned and before the
\* first submit of the later one; no delay follows the last item
C16_InterItemDelay == []C16_DelayInv /\ [][C16_DelayAct]_vars

\* a run of two items, the first of which failed, took one delay
C16_Witness ==
    /\ RunEnded
    /\ Len(to_generate) = 2
    /\ failed_ids = <<to_generate[1]>>
    /\ delays = 1

C19_OrderInv ==
    /\ pc = "submit" => submits = retry
    /\ pc \in {"poll", "fetch", "download", "open", "write"} =>
          /\ submits = retry + 1
          /\ queue_resp.status_url /\ queue_resp.response_url
    /\ pc \in {"fetch", "download", "open", "write"} => status = "COMPLETED"
    /\ pc \in {"download", "open", "write"} => image_url # 0

C19_OrderAct ==
    /\ (pc' = "poll" /\ pc # "poll") => pc = "submit"
    /\ pc' = "fetch" => pc = "poll"
    /\ pc' = "download" => pc = "fetch"
    /\ pc' = "open" => pc = "download"
    /\ files' # files => (pc \in {"open", "write"} /\ image_url # 0)
    /\ err' = "endpoints" =>
          /\ pc = "submit"
          /\ polls' = 0
          /\ pc' = IF RetriesLeft(retry) THEN "backoff" ELSE "ret"
    /\ (pc = "backoff" /\ pc' = "submit") => retry' = retry + 1

\* C19: within an attempt the steps go submit, poll, fetch, download; there
\* is no poll unless the submit response carried both endpoints (without
\* them the attempt fails at once and uses up a retry); fetch follows a poll
\* of the same attempt that saw COMPLETED; the artifact is written only
\* after the fetch of the same attempt gave an image reference
C19_StepOrder == []C19_OrderInv /\ [][C19_OrderAct]_vars

\* the second attempt of an invocation reached the write of the artifact
C19_Witness ==
    /\ pc = "write"
    /\ retry = 1
    /\ err = "none"
    /\ status = "COMPLETED"
    /\ image_url # 0


(***************************************************************************)
(* Properties of the extraction step, continued (SpecExtract)              *)
(***************************************************************************)
\* the image list a wrapper holds
ListOf(w) == IF w.kind = "dict" THEN w.images ELSE <<>>

\* the three places in the order images, output.images, data.images
Locations(r) == <<r.images, ListOf(r.output), ListOf(r.data)>>

\* the reference an entry holds (0: none)
EntryRef(e) == IF e.isdict THEN e.url ELSE e.bare

\* C20: for every result payload, when at least one of images,
\* output.images, data.images holds a non-empty list, the extraction yields
\* the reference of the first entry of the first such list in that order
C20_OrderedStrategies ==
    extracted # -1 =>
        \A i \in 1..3 :
            (/\ Locations(result)[i] # <<>>
             /\ \A j \in 1..(i - 1) : Locations(result)[j] = <<>>)
            => extracted = EntryRef(Locations(result)[i][1])


(***************************************************************************)
(* Properties of what generate_single leaves on disk (Spec)                *)
(***************************************************************************)
\* C21: whenever generate_single returns True for an item, whatever the
\* service and the download returned, a non-empty artifact exists at the
\* path of the item, so that the resume test of a later non-forced run
\* passes for it
C21_SuccessIsDurable ==
    (pc = "ret" /\ ok) =>
        /\ NonEmptyArtifact(files[token_id])
        /\ AlreadyDone(FALSE, files[token_id])

\* the error kinds of an attempt that ends before download_image opens the
\* file: submit, endpoints, poll, fetch, extraction, download request
FailsBeforeOpen ==
    {"submit", "endpoints", "poll", "FAILED", "CANCELLED", "timeout",
     "fetch", "shape", "download"}

C22_KeptInv ==
    (force /\ pc = "ret" /\ ~ok /\ err \in FailsBeforeOpen) =>
        files[token_id] = entryFile

C22_KeptAct ==
    (force /\ err' \in FailsBeforeOpen /\ pc' \in {"backoff", "ret"}
           /\ pc \notin {"backoff", "ret"})
        => (files' = files /\ files[token_id] = entryFile)

\* C22: in forced-redo mode, when every attempt for an item fails at submit,
\* poll, fetch, extraction or the download request, the file that was at
\* the path of the item on entry is there unchanged (not truncated, deleted
\* or replaced) when generate_single returns failure
C22_FailedRedoKeepsOld == []C22_KeptInv /\ [][C22_KeptAct]_vars

\* a forced redo of an item with an artifact failed, the last attempt at
\* the download request, and the artifact is as it was
C22_Witness ==
    /\ pc = "ret"
    /\ ~ok
    /\ force
    /\ err = "download"
    /\ retry = MAX_RETRIES - 1
    /\ NonEmptyArtifact(entryFile)
    /\ files[token_id] = entryFile

====
